---- MODULE Spec2Model ----
(***************************************************************************)
(* CodeArea (src/src/lib.rs): the buffer-and-cursor engine of a multi-line *)
(* code editor.  The document is kept as two strings split at the cursor:  *)
(* `before` in reading order and `after` in reverse reading order, with a  *)
(* cached cursor position (selected_column, selected_line).                *)
(*                                                                         *)
(* An area is the record                                                   *)
(*   [before, after, selected_column, selected_line, enabled, panicked] .  *)
(* Strings are sequences of one-character strings; push/pop act on the     *)
(* tail of the sequence as String::push / String::pop do.                  *)
(*                                                                         *)
(* usize arithmetic is that of the crate built with overflow checks, the   *)
(* default of `cargo build` and of the `cargo test` run of mod test:       *)
(* `x -= n` with x < n panics ("attempt to subtract with overflow").  The  *)
(* operation stops at that instruction, the area is left as it was there,  *)
(* `panicked` is set and no further operation runs.  (Built with           *)
(* `--release` the same instruction stores 2^64 + x - n instead; x + n     *)
(* cannot overflow for any document that fits in memory.)                  *)
(***************************************************************************)
EXTENDS Integers, Sequences, FiniteSets, TLC

\* Longest document (before + after, in characters) the model builds.
MaxLen == 3

\* const TAB_LEN: usize = 4;
TAB_LEN == 4

NL == "\n"
TABCH == "\t"
\* The characters a caller may pass to insert(ch: char): any char, the tab
\* and the newline included.  Printable are those among them that are neither.
Printable == {"a"}
Chars == Printable \cup {TABCH, NL}

None == "None"

VARIABLES
    before,           \* Content::before
    after,            \* Content::after (reverse reading order)
    selected_column,  \* Content::selected_column
    selected_line,    \* Content::selected_line
    enabled,          \* CodeArea::enabled
    panicked,         \* a usize subtraction went below zero: the thread panicked
    last_op,          \* name of the last operation called
    arg,              \* its argument (a character, an event) or None
    prev,             \* the area when that operation was called
    ret               \* what it returned (None when it returns nothing)

vars == <<before, after, selected_column, selected_line, enabled,
          panicked, last_op, arg, prev, ret>>

\* The area as the operations below take it.
Area ==
    [before |-> before, after |-> after,
     selected_column |-> selected_column, selected_line |-> selected_line,
     enabled |-> enabled, panicked |-> panicked]

\* The operation has panicked: nothing after the failing instruction runs.
Halted(a) == a.panicked

----------------------------------------------------------------------------
(* String helpers *)

Last(s) == s[Len(s)]
Front(s) == SubSeq(s, 1, Len(s) - 1)

RECURSIVE Reverse(_)
Reverse(s) == IF s = <<>> THEN <<>> ELSE <<Last(s)>> \o Reverse(Front(s))

\* s.chars().rev().take_while(|&ch| ch != '\n').count()
RECURSIVE rev_take_while_count(_)
rev_take_while_count(s) ==
    IF s = <<>> \/ Last(s) = NL THEN 0 ELSE 1 + rev_take_while_count(Front(s))

\* Content::column
column(a) == rev_take_while_count(a.before)

\* x -= n on a usize field f of the area.
sub_assign(a, f, n) ==
    IF a[f] < n
    THEN [a EXCEPT !.panicked = TRUE]
    ELSE [a EXCEPT ![f] = @ - n]

\* x += n on a usize field f of the area.
add_assign(a, f, n) == [a EXCEPT ![f] = @ + n]

----------------------------------------------------------------------------
(* Public interface *)

\* CodeArea::new
new ==
    [before |-> <<>>, after |-> <<>>, selected_column |-> 0,
     selected_line |-> 0, enabled |-> TRUE, panicked |-> FALSE]

enable(a) == [a EXCEPT !.enabled = TRUE]
disable(a) == [a EXCEPT !.enabled = FALSE]

get_content(a) == a.before \o Reverse(a.after)
get_cursor_pos(a) == <<a.selected_column, a.selected_line>>

----------------------------------------------------------------------------
(* Text manage *)

\* Mutant of insert: the character is pushed at the end of the document
\* instead of at the cursor.
insert_at_end(a, ch) ==
    add_assign([a EXCEPT !.after = <<ch>> \o @], "selected_column", 1)

insert(a, ch) ==
    add_assign([a EXCEPT !.before = Append(@, ch)], "selected_column", 1)

tab(a) ==
    add_assign([a EXCEPT !.before = Append(@, TABCH)], "selected_column", TAB_LEN)

new_line(a) ==
    LET a1 == [a EXCEPT !.selected_column = 0]
        a2 == add_assign(a1, "selected_line", 1)
    IN  [a2 EXCEPT !.before = Append(@, NL)]

\* Mutant of erase_symbol: the last character is read (chars().last())
\* and the cursor position updated, but the character is not popped.
erase_symbol_peek(a) ==
    IF a.before = <<>>
    THEN [a |-> a, ret |-> None]
    ELSE LET ch == Last(a.before)
         IN  IF ch = NL
             THEN LET a2 == sub_assign(a, "selected_line", 1)
                  IN  [a |-> IF Halted(a2) THEN a2
                             ELSE [a2 EXCEPT !.selected_column =
                                       rev_take_while_count(Front(a2.before))],
                       ret |-> ch]
             ELSE IF ch = TABCH
             THEN [a |-> sub_assign(a, "selected_column", TAB_LEN), ret |-> ch]
             ELSE [a |-> sub_assign(a, "selected_column", 1), ret |-> ch]

\* Returns [a |-> the area afterwards, ret |-> Option<char>].
erase_symbol(a) ==
    IF a.before = <<>>
    THEN [a |-> a, ret |-> None]
    ELSE LET ch == Last(a.before)
             a1 == [a EXCEPT !.before = Front(@)]
         IN  IF ch = NL
             THEN LET a2 == sub_assign(a1, "selected_line", 1)
                  IN  [a |-> IF Halted(a2) THEN a2
                             ELSE [a2 EXCEPT !.selected_column =
                                       rev_take_while_count(a2.before)],
                       ret |-> ch]
             ELSE IF ch = TABCH
             THEN [a |-> sub_assign(a1, "selected_column", TAB_LEN), ret |-> ch]
             ELSE [a |-> sub_assign(a1, "selected_column", 1), ret |-> ch]

erase(a) == erase_symbol(a).a

RECURSIVE erase_line(_)
erase_line(a) ==
    LET r == erase_symbol(a)
    IN  IF r.ret = None \/ Halted(r.a) \/ r.ret = NL
        THEN r.a
        ELSE erase_line(r.a)

----------------------------------------------------------------------------
(* Cursor manage: auxiliary functional *)

\* Returns [a |-> the area afterwards, ret |-> Option<char>].
move_right(a) ==
    IF a.after = <<>>
    THEN [a |-> a, ret |-> None]
    ELSE LET ch == Last(a.after)
             a1 == [a EXCEPT !.after = Front(@), !.before = Append(@, ch)]
         IN  IF ch = NL
             THEN [a |-> add_assign([a1 EXCEPT !.selected_column = 0],
                                    "selected_line", 1),
                   ret |-> ch]
             ELSE IF ch = TABCH
             THEN [a |-> add_assign(a1, "selected_column", TAB_LEN), ret |-> ch]
             ELSE [a |-> add_assign(a1, "selected_column", 1), ret |-> ch]

\* move_left when before.pop() is Some(ch).
move_left_some(a) ==
    LET ch == Last(a.before)
        a1 == [a EXCEPT !.before = Front(@), !.after = Append(@, ch)]
    IN  IF ch = NL
        THEN LET a2 == sub_assign(a1, "selected_line", 1)
             IN  [a |-> IF Halted(a2) THEN a2
                        ELSE [a2 EXCEPT !.selected_column = column(a2)],
                  ret |-> ch]
        ELSE IF ch = TABCH
        THEN [a |-> sub_assign(a1, "selected_column", TAB_LEN), ret |-> ch]
        ELSE [a |-> sub_assign(a1, "selected_column", 1), ret |-> ch]

\* Mutant of move_left: a `match` on the Option whose `_` arm also takes
\* None, so that a move at the start of the document still decrements the
\* column.
move_left_default_arm(a) ==
    IF a.before = <<>>
    THEN [a |-> sub_assign(a, "selected_column", 1), ret |-> None]
    ELSE move_left_some(a)

\* Returns [a |-> the area afterwards, ret |-> Option<char>].
move_left(a) ==
    IF a.before = <<>>
    THEN [a |-> a, ret |-> None]
    ELSE move_left_some(a)

\* The loop of right_to_end with `counter` characters moved so far.
RECURSIVE right_to_end_loop(_, _)
right_to_end_loop(a, counter) ==
    IF a.after = <<>> \/ Last(a.after) = NL
    THEN [a |-> a, ret |-> counter]
    ELSE LET ch == Last(a.after)
             a1 == add_assign([a EXCEPT !.after = Front(@)], "selected_column",
                              IF ch = TABCH THEN TAB_LEN ELSE 1)
         IN  right_to_end_loop([a1 EXCEPT !.before = Append(@, ch)], counter + 1)

\* A right_to_end whose loop has no `Some('\n')` arm to stop it: the newline
\* that ends the line is crossed too, uncounted.
right_to_end_crossing(a) ==
    LET r == right_to_end_loop(a, 0)
    IN  [a |-> move_right(r.a).a, ret |-> r.ret]

\* Returns [a |-> the area afterwards, ret |-> usize].
right_to_end(a) == right_to_end_loop(a, 0)

\* The loop of left_to_home with `counter` characters moved so far.  The
\* character is popped, the column decremented, and only then is the
\* character pushed onto `after`.
RECURSIVE left_to_home_loop(_, _)
left_to_home_loop(a, counter) ==
    IF a.before = <<>> \/ Last(a.before) = NL
    THEN [a |-> a, ret |-> counter]
    ELSE LET ch == Last(a.before)
             a1 == sub_assign([a EXCEPT !.before = Front(@)], "selected_column",
                              IF ch = TABCH THEN TAB_LEN ELSE 1)
         IN  IF Halted(a1)
             THEN [a |-> a1, ret |-> counter]
             ELSE left_to_home_loop([a1 EXCEPT !.after = Append(@, ch)],
                                    counter + 1)

\* Returns [a |-> the area afterwards, ret |-> usize].
left_to_home(a) == left_to_home_loop(a, 0)

----------------------------------------------------------------------------
(* Cursor manage: interface *)

right(a) == move_right(a).a
end(a) == right_to_end(a).a
left(a) == move_left(a).a
home(a) == left_to_home(a).a

RECURSIVE beginning_of_file(_)
beginning_of_file(a) ==
    LET r == move_left(a)
    IN  IF r.ret = None \/ Halted(r.a) THEN r.a ELSE beginning_of_file(r.a)

RECURSIVE end_of_file(_)
end_of_file(a) ==
    LET r == move_right(a)
    IN  IF r.ret = None THEN r.a ELSE end_of_file(r.a)

\* for _ in 0..n { self.move_left(); }
RECURSIVE move_left_times(_, _)
move_left_times(a, n) ==
    IF n = 0 \/ Halted(a) THEN a ELSE move_left_times(move_left(a).a, n - 1)

\* up after `let column = self.left_to_home()` returned h.
up_from_home(h) ==
    LET col == h.ret
    IN  IF Halted(h.a) THEN h.a
        ELSE LET a1 == left(h.a)
             IN  IF Halted(a1) THEN a1
                 ELSE LET upper_line_width == column(a1)
                      IN  IF upper_line_width > col
                          THEN move_left_times(a1, upper_line_width - col)
                          ELSE a1

\* Mutant of up: returns at once when the cursor is on the first line.
up_guarded(a) ==
    IF column(a) = Len(a.before) THEN a ELSE up_from_home(left_to_home(a))

up(a) == up_from_home(left_to_home(a))

\* The loop of down with the local `column` at col.  The character has
\* already been moved when `column -= 1` runs.
RECURSIVE down_loop(_, _)
down_loop(a, col) ==
    LET r == move_right(a)
    IN  IF r.ret = None THEN r.a
        ELSE IF col < 1
             THEN [r.a EXCEPT !.panicked = TRUE]
             ELSE IF r.ret = NL \/ col - 1 = 0
                  THEN r.a
                  ELSE down_loop(r.a, col - 1)

down(a) ==
    LET col == column(a)
        a1 == right_to_end(a).a
        a2 == right(a1)
    IN  down_loop(a2, col)

----------------------------------------------------------------------------
(* View: event dispatch *)

\* cursive events, as [kind, key]: Event::Char(ch), Event::Key(k),
\* Event::Ctrl(k).  Key "Del" stands for the events on_event has no arm for.
KeyEvents ==
    [kind : {"Key"},
     key : {"Tab", "Enter", "Backspace", "Home", "End", "Left", "Right",
            "Up", "Down", "Esc", "Del"}]
CtrlEvents ==
    [kind : {"Ctrl"},
     key : {"Backspace", "Left", "Right", "Up", "Down", "Home", "End"}]
CharEvents == [kind : {"Char"}, key : Chars]
Events == CharEvents \cup KeyEvents \cup CtrlEvents

Key(k) == [kind |-> "Key", key |-> k]
Ctrl(k) == [kind |-> "Ctrl", key |-> k]

\* The `match event` of on_event and the result built from `consumed`.
match_event(a, event) ==
    LET consumed(a2) == [a |-> a2, ret |-> "Consumed"]
    IN  CASE event.kind = "Char" -> consumed(insert(a, event.key))
          [] event = Key("Tab") -> consumed(tab(a))
          [] event = Key("Enter") -> consumed(new_line(a))
          [] event = Ctrl("Backspace") -> consumed(erase_line(a))
          [] event = Key("Backspace") -> consumed(erase(a))
          [] event \in {Key("Home"), Ctrl("Left")} -> consumed(home(a))
          [] event \in {Key("End"), Ctrl("Right")} -> consumed(end(a))
          [] event \in {Ctrl("Up"), Ctrl("Home")} ->
                 consumed(beginning_of_file(a))
          [] event \in {Ctrl("Down"), Ctrl("End")} ->
                 consumed(end_of_file(a))
          [] event = Key("Left") -> consumed(left(a))
          [] event = Key("Right") -> consumed(right(a))
          [] event = Key("Up") -> consumed(up(a))
          [] event = Key("Down") -> consumed(down(a))
          [] event = Key("Esc") -> consumed(disable(a))
          [] OTHER -> [a |-> a, ret |-> "Ignored"]

\* Mutant of on_event: the `if !self.enabled` gate is missing.
on_event_ungated(a, event) == match_event(a, event)

\* An on_event whose gate lets Key::Esc through as a toggle: Esc on a disabled
\* area enables it.
on_event_esc_toggle(a, event) ==
    IF ~a.enabled
    THEN IF event = Key("Esc")
         THEN [a |-> enable(a), ret |-> "Consumed"]
         ELSE [a |-> a, ret |-> "Ignored"]
    ELSE match_event(a, event)

\* Returns [a |-> the area afterwards, ret |-> "Consumed" or "Ignored"].
on_event(a, event) ==
    IF ~a.enabled
    THEN [a |-> a, ret |-> "Ignored"]
    ELSE match_event(a, event)

\* Every result a single call can leave that is not handed a character:
\* the pub fns of impl CodeArea other than insert, and on_event for the
\* events other than Event::Char.  The crate has no other operation on an
\* area; in particular none named undo, and no field that keeps erased text.
Operations(a) ==
    {enable(a), disable(a), tab(a), new_line(a), erase(a), erase_line(a),
     erase_symbol(a).a, right(a), end(a), left(a), home(a),
     beginning_of_file(a), end_of_file(a), up(a), down(a), move_right(a).a,
     move_left(a).a, right_to_end(a).a, left_to_home(a).a}
    \cup {on_event(a, event).a : event \in KeyEvents \cup CtrlEvents}

----------------------------------------------------------------------------
(* The state machine: one action per public method, called in any order by *)
(* the owner of the area.  A call is recorded in last_op, arg, prev, ret.  *)

NoArg == [kind |-> "None", key |-> None]
CharArg(ch) == [kind |-> "Char", key |-> ch]

\* The process is still running (no panic so far).
Running == ~panicked

\* There is room for one more character within the model's bound.
Room == Len(before) + Len(after) < MaxLen

\* The call op(argument) took Area to a2 and returned r.
Call(op, argument, a2, r) ==
    /\ Running
    /\ before' = a2.before
    /\ after' = a2.after
    /\ selected_column' = a2.selected_column
    /\ selected_line' = a2.selected_line
    /\ enabled' = a2.enabled
    /\ panicked' = a2.panicked
    /\ last_op' = op
    /\ arg' = argument
    /\ prev' = Area
    /\ ret' = r

Init ==
    /\ before = new.before
    /\ after = new.after
    /\ selected_column = new.selected_column
    /\ selected_line = new.selected_line
    /\ enabled = new.enabled
    /\ panicked = new.panicked
    /\ last_op = "new"
    /\ arg = NoArg
    /\ prev = new
    /\ ret = None

Enable == Call("enable", NoArg, enable(Area), None)
Disable == Call("disable", NoArg, disable(Area), None)
InsertOf(S) == \E ch \in S : Room /\ Call("insert", CharArg(ch), insert(Area, ch), None)
Insert == InsertOf(Chars)
Tab == Room /\ Call("tab", NoArg, tab(Area), None)
NewLine == Room /\ Call("new_line", NoArg, new_line(Area), None)
Erase == Call("erase", NoArg, erase(Area), None)
EraseLine == Call("erase_line", NoArg, erase_line(Area), None)
EraseSymbol == Call("erase_symbol", NoArg, erase_symbol(Area).a, erase_symbol(Area).ret)
Right == Call("right", NoArg, right(Area), None)
End == Call("end", NoArg, end(Area), None)
Left == Call("left", NoArg, left(Area), None)
Home == Call("home", NoArg, home(Area), None)
BeginningOfFile == Call("beginning_of_file", NoArg, beginning_of_file(Area), None)
EndOfFile == Call("end_of_file", NoArg, end_of_file(Area), None)
Up == Call("up", NoArg, up(Area), None)
Down == Call("down", NoArg, down(Area), None)
MoveRight == Call("move_right", NoArg, move_right(Area).a, move_right(Area).ret)
MoveLeft == Call("move_left", NoArg, move_left(Area).a, move_left(Area).ret)
RightToEnd == Call("right_to_end", NoArg, right_to_end(Area).a, right_to_end(Area).ret)
LeftToHome == Call("left_to_home", NoArg, left_to_home(Area).a, left_to_home(Area).ret)

\* An event that types a character needs room within the model's bound.
Types(event) ==
    enabled /\ (event.kind = "Char" \/ event \in {Key("Tab"), Key("Enter")})

OnEventOf(E) ==
    \E event \in E :
        /\ Types(event) => Room
        /\ Call("on_event", event, on_event(Area, event).a,
                on_event(Area, event).ret)
OnEvent == OnEventOf(Events)

\* Every method but insert and on_event.
Methods ==
    \/ Enable
    \/ Disable
    \/ Tab
    \/ NewLine
    \/ Erase
    \/ EraseLine
    \/ EraseSymbol
    \/ Right
    \/ End
    \/ Left
    \/ Home
    \/ BeginningOfFile
    \/ EndOfFile
    \/ Up
    \/ Down
    \/ MoveRight
    \/ MoveLeft
    \/ RightToEnd
    \/ LeftToHome

\* Any caller: insert and Event::Char carry any character.
Next == Insert \/ OnEvent \/ Methods

Spec == Init /\ [][Next]_vars

\* A caller that types the tab and the newline as the view's on_event does,
\* through tab() and new_line() (Key::Tab, Key::Enter), and passes only
\* other characters to insert and in Event::Char.
InsertTyped == InsertOf(Printable)
OnEventTyped == OnEventOf(Events \ [kind : {"Char"}, key : {TABCH, NL}])
NextTyped == InsertTyped \/ OnEventTyped \/ Methods

SpecTyped == Init /\ [][NextTyped]_vars

----------------------------------------------------------------------------
(* Vocabulary of the properties *)

Min(x, y) == IF x < y THEN x ELSE y
Max(S) == CHOOSE x \in S : \A y \in S : y <= x
Least(S) == CHOOSE x \in S : \A y \in S : x <= y

HasNL(s) == \E i \in 1..Len(s) : s[i] = NL

\* Visual columns between the last newline of s (or its start) and its end.
RECURSIVE VisualColumn(_)
VisualColumn(s) ==
    IF s = <<>> \/ Last(s) = NL
    THEN 0
    ELSE (IF Last(s) = TABCH THEN TAB_LEN ELSE 1) + VisualColumn(Front(s))

\* Number of newline characters of s.
RECURSIVE NewlineCount(_)
NewlineCount(s) ==
    IF s = <<>> THEN 0
    ELSE (IF Last(s) = NL THEN 1 ELSE 0) + NewlineCount(Front(s))

\* A cursor is an offset 0..Len(doc): the number of characters before it.
Cursor(a) == Len(a.before)
\* Offset of the start of the line holding offset k.
LineStart(doc, k) == Max({0} \cup {i \in 1..k : doc[i] = NL})
\* Offset of the end of the line holding offset k.
LineEnd(doc, k) == Least({Len(doc)} \cup {i - 1 : i \in {j \in (k+1)..Len(doc) : doc[j] = NL}})

\* The last call was op, made directly on the area, and prev is the area it
\* was called on.
Called(op) == last_op = op

\* The observable area: content and cursor position.
Observed(a) == <<get_content(a), get_cursor_pos(a)>>
\* Both partitions and the cursor position.
Stored(a) == <<a.before, a.after, a.selected_column, a.selected_line>>

----------------------------------------------------------------------------
(* Properties *)

\* C1: after every operation the cached column equals the number of visual
\* columns between the last newline of `before` (or its start) and the
\* cursor, a tab counting TAB_LEN and any other character 1.
C1_ColumnIsVisualColumn ==
    ~panicked => selected_column = VisualColumn(before)

\* C2: after every operation the cached line equals the number of newline
\* characters in `before`.
C2_LineIsNewlineCount ==
    ~panicked => selected_line = NewlineCount(before)

\* C3: every public operation returns normally: no usize subtraction on the
\* cached column, the cached line or the local column of down() goes below
\* zero.
C3_NoSubtractionBelowZero == ~panicked

C5_LeftThenRightRestores ==
    (~panicked /\ before # <<>>)
        => move_right(move_left(Area).a).a = Area

\* C6: move_left() with an empty `before` and move_right() with an empty
\* `after` return None and leave both partitions, the column and the line
\* unchanged; the area being unchanged, so does every repetition.
C6_MoveAtBoundaryIsNoOp ==
    /\ (Called("move_left") /\ prev.before = <<>>)
           => /\ ret = None
              /\ Area = prev
              /\ move_left(Area) = [a |-> prev, ret |-> None]
    /\ (Called("move_right") /\ prev.after = <<>>)
           => /\ ret = None
              /\ Area = prev
              /\ move_right(Area) = [a |-> prev, ret |-> None]

\* move_left() was called at the start of a document that has text.
C6_Witness ==
    /\ Called("move_left")
    /\ prev.before = <<>>
    /\ HasNL(prev.after)

\* Where up() should leave the cursor of area a, whose line has a previous
\* line: on that line, at offset min(c, w).
UpTarget(a) ==
    LET doc == get_content(a)
        ls == LineStart(doc, Cursor(a))
        c == Cursor(a) - ls
        pls == LineStart(doc, ls - 1)
        w == (ls - 1) - pls
    IN  pls + Min(c, w)

\* C7: with the cursor at character offset c of a line that has a previous
\* line of width w, up() places the cursor on the previous line at offset
\* min(c, w) and leaves get_content() unchanged.
C7_UpClampsToPreviousLine ==
    (Called("up") /\ HasNL(prev.before))
        => /\ ~panicked
           /\ get_content(Area) = get_content(prev)
           /\ Cursor(Area) = UpTarget(prev)

\* Where down() should leave the cursor of area a, whose line has a
\* following line: on that line, at offset min(c, w).
DownTarget(a) ==
    LET doc == get_content(a)
        c == Cursor(a) - LineStart(doc, Cursor(a))
        nls == LineEnd(doc, Cursor(a)) + 1
        w == LineEnd(doc, nls) - nls
    IN  nls + Min(c, w)

\* C8: with the cursor at character offset c (0 included) of a line that has
\* a following line of width w, down() places the cursor on the following
\* line at offset min(c, w), crosses no second newline, and leaves
\* get_content() unchanged.
C8_DownClampsToNextLine ==
    (Called("down") /\ HasNL(prev.after))
        => /\ ~panicked
           /\ get_content(Area) = get_content(prev)
           /\ Cursor(Area) = DownTarget(prev)

UpOnFirstLine == Called("up") /\ ~HasNL(prev.before)
DownOnLastLine == Called("down") /\ ~HasNL(prev.after)

\* C9 as stated: up() anywhere on the first line and down() anywhere on the
\* last line leave the cursor position and both partitions unchanged.
C9_EdgeLineLeavesCursor ==
    (UpOnFirstLine \/ DownOnLastLine) => Stored(Area) = Stored(prev)

\* C9 as amended: up() on the first line leaves the cursor position and both
\* partitions unchanged exactly when the cursor is already at the start of
\* that line, and down() on the last line exactly when it is already at the
\* end of that line; from anywhere else on the line the call moves it.
C9_EdgeLineLeavesCursorOnlyAtLineEdge ==
    /\ UpOnFirstLine
           => (Stored(Area) = Stored(prev) <=> prev.before = <<>>)
    /\ DownOnLastLine
           => (Stored(Area) = Stored(prev) <=> prev.after = <<>>)

\* up() was called in the middle of the first line and returned.
C9_Witness ==
    /\ UpOnFirstLine
    /\ prev.before # <<>>
    /\ prev.after # <<>>
    /\ ~panicked

\* C10: as mod test asserts, up() on the first line moves the cursor to the
\* start of that line, position (0,0), and down() on the last line moves it
\* to the end of that line; the text is unchanged.
C10_EdgeLineGoesToLineEdge ==
    /\ UpOnFirstLine
           => /\ ~panicked
              /\ before = <<>>
              /\ get_cursor_pos(Area) = <<0, 0>>
              /\ get_content(Area) = get_content(prev)
    /\ DownOnLastLine
           => /\ ~panicked
              /\ after = <<>>
              /\ get_content(Area) = get_content(prev)

\* The text erase_line() should leave in `before`: what precedes its most
\* recent newline, or nothing when it has none.
EraseLineTarget(s) ==
    IF HasNL(s) THEN SubSeq(s, 1, LineStart(s, Len(s)) - 1) ELSE <<>>

\* C11: erase_line() removes from the end of `before` every character back
\* to and including the most recent newline (all of `before` when it has
\* none) and nothing further, leaves `after` unchanged, and leaves the
\* cursor at the line and column of the end of the remaining `before`.
C11_EraseLineToNewline ==
    Called("erase_line")
        => /\ ~panicked
           /\ before = EraseLineTarget(prev.before)
           /\ after = prev.after
           /\ selected_column = VisualColumn(before)
           /\ selected_line = NewlineCount(before)

\* C12: insert(ch), tab() and new_line() each append exactly one character
\* (ch, tab, newline) to the end of `before`, at the cursor, leave `after`
\* unchanged, and update the cursor by column + 1, column + TAB_LEN, and
\* (column = 0, line + 1).
C12_TypingAppendsAtCursor ==
    /\ Called("insert")
           => /\ before = Append(prev.before, arg.key)
              /\ after = prev.after
              /\ get_cursor_pos(Area) =
                     <<prev.selected_column + 1, prev.selected_line>>
    /\ Called("tab")
           => /\ before = Append(prev.before, TABCH)
              /\ after = prev.after
              /\ get_cursor_pos(Area) =
                     <<prev.selected_column + TAB_LEN, prev.selected_line>>
    /\ Called("new_line")
           => /\ before = Append(prev.before, NL)
              /\ after = prev.after
              /\ get_cursor_pos(Area) = <<0, prev.selected_line + 1>>
    /\ last_op \in {"insert", "tab", "new_line"} => ~panicked

\* A character was inserted with text on both sides of the cursor.
C12_Witness ==
    /\ Called("insert")
    /\ prev.before # <<>>
    /\ prev.after # <<>>
    /\ get_content(Area) = prev.before \o <<arg.key>> \o Reverse(prev.after)

\* C13: erase_symbol() on a non-empty `before` removes exactly its last
\* character and returns it, leaving `after` unchanged; on an empty `before`
\* it returns None and changes neither partition nor the cursor position,
\* whatever `after` holds.
C13_EraseSymbolPopsLast ==
    Called("erase_symbol")
        => /\ ~panicked
           /\ after = prev.after
           /\ prev.before # <<>>
                  => /\ before = Front(prev.before)
                     /\ ret = Last(prev.before)
           /\ prev.before = <<>>
                  => /\ ret = None
                     /\ Stored(Area) = Stored(prev)

\* The last call erased a character: erase_symbol(), erase() or erase_line()
\* on a non-empty `before`, and it returned.
Erased ==
    /\ last_op \in {"erase_symbol", "erase", "erase_line"}
    /\ prev.before # <<>>
    /\ ~panicked

OffsetInLine(a) == Cursor(a) - LineStart(a.before, Cursor(a))
PreviousLineWidth(a) ==
    LET ls == LineStart(a.before, Cursor(a))
    IN  (ls - 1) - LineStart(a.before, ls - 1)

\* C15: for a cursor on a line that has a previous line at least as wide as
\* the cursor's offset in its own line (offset 0 included), up() immediately
\* followed by down() restores the cursor position and both partitions.
C15_UpThenDownRestores ==
    (~panicked /\ HasNL(before) /\ OffsetInLine(Area) <= PreviousLineWidth(Area))
        => down(up(Area)) = Area


\* C16: beginning_of_file() ends with `before` empty and the cursor at (0, 0);
\* end_of_file() ends with `after` empty and the cursor's line equal to the
\* number of newlines of the document; both leave get_content() unchanged.
C16_FileEdgesReached ==
    /\ Called("beginning_of_file")
           => /\ ~panicked
              /\ before = <<>>
              /\ get_cursor_pos(Area) = <<0, 0>>
              /\ get_content(Area) = get_content(prev)
    /\ Called("end_of_file")
           => /\ ~panicked
              /\ after = <<>>
              /\ selected_line = NewlineCount(get_content(Area))
              /\ get_content(Area) = get_content(prev)


\* The cursor-movement operations.
Movements ==
    {"move_left", "move_right", "left", "right", "left_to_home", "home",
     "right_to_end", "end", "up", "down", "beginning_of_file", "end_of_file"}

\* C17: every cursor-movement operation leaves get_content() unchanged:
\* characters only pass between `before` and `after`, and none is dropped,
\* duplicated or reordered.
C17_MovementKeepsContent ==
    last_op \in Movements => get_content(Area) = get_content(prev)


\* C18: left_to_home() returns with `before` empty or ending in a newline,
\* the cached column 0, the cached line unchanged, and the count of the
\* characters it transferred from `before` to `after`.
C18_LeftToHomeReachesLineStart ==
    Called("left_to_home")
        => /\ ~panicked
           /\ before = <<>> \/ Last(before) = NL
           /\ selected_column = 0
           /\ selected_line = prev.selected_line
           /\ ret = Len(prev.before) - Len(before)
           /\ after = prev.after \o
                  Reverse(SubSeq(prev.before, Len(before) + 1, Len(prev.before)))


\* The characters the last call moved from `after` to the end of `before`.
Passed == SubSeq(before, Len(prev.before) + 1, Len(before))

\* C19: right_to_end() returns with `after` empty or its next character a
\* newline, no newline crossed, the cached line unchanged, the cached column
\* grown by the visual width of the characters passed (a tab is TAB_LEN), and
\* the count of the characters it transferred from `after` to `before`.
C19_RightToEndReachesLineEnd ==
    last_op \in {"right_to_end", "end"}
        => /\ ~panicked
           /\ after = <<>> \/ Last(after) = NL
           /\ Len(before) >= Len(prev.before)
           /\ before = prev.before \o Passed
           /\ prev.after = after \o Reverse(Passed)
           /\ ~HasNL(Passed)
           /\ selected_line = prev.selected_line
           /\ selected_column = prev.selected_column + VisualColumn(Passed)
           /\ Called("right_to_end") => ret = Len(Passed)

\* right_to_end() passed a printable character and a tab and stopped in front
\* of the newline that ends the line.
C19_Witness ==
    /\ Called("right_to_end")
    /\ Passed = <<"a", TABCH>>
    /\ after = <<NL>>
    /\ ret = 2
    /\ selected_column = prev.selected_column + 1 + TAB_LEN


\* C20: a step of on_event taken while the area is disabled returns Ignored
\* and changes neither partition, the cursor position nor the enabled flag,
\* whatever the event; on_event handling Esc disables the area; and a step
\* that takes the area from disabled to enabled is a direct enable() call.
\* By induction no sequence of on_event steps after Esc modifies the document
\* or enables the area.
C20_DisabledUntilEnableCalled ==
    [][/\ (~enabled /\ last_op' = "on_event")
              => /\ ret' = "Ignored"
                 /\ before' = before
                 /\ after' = after
                 /\ selected_column' = selected_column
                 /\ selected_line' = selected_line
                 /\ ~enabled'
                 /\ ~panicked'
       /\ (enabled /\ last_op' = "on_event" /\ arg' = Key("Esc"))
              => ~enabled' /\ ret' = "Consumed"
       /\ (~enabled /\ enabled') => last_op' = "enable"]_vars

\* A disabled area with a non-empty `before` was sent an erasing event, which
\* was ignored.
C20_Witness ==
    /\ Called("on_event")
    /\ arg \in {Key("Backspace"), Ctrl("Backspace")}
    /\ ret = "Ignored"
    /\ ~prev.enabled
    /\ ~enabled
    /\ before # <<>>
    /\ before = prev.before

====
